---- MODULE Spec2Model ----
(***************************************************************************)
(* Model of src/example.py: six tire classes (CarTire, BicycleTire,        *)
(* MotorcycleTire, TruckTire, RacingTire, OffroadTire), the validating     *)
(* property setters, the @logged wrapper and SerializationMixin.           *)
(*                                                                         *)
(* Numbers are integers.  math.pi is kept in thousandths, so every         *)
(* circumference and surface area is in thousandths as well; floating      *)
(* point rounding is not modelled.  An instance's __dict__ is a sequence   *)
(* of key/value items in insertion order, as in Python.  The args tuple    *)
(* printed by the wrapper is kept without its first element (the           *)
(* instance).                                                              *)
(***************************************************************************)
EXTENDS Integers, Sequences, FiniteSets, TLC

\* Arguments supplied by callers are sampled around the only threshold the
\* code compares with, zero: a negative number, zero, one, and one larger
\* positive number (MaxVal).
MaxVal == 3

\* At most MaxCalls calls of @logged methods are made; each writes two log records.
MaxCalls == 2

Values == {-1, 0, 1, MaxVal}

\* math.pi, in thousandths.
pi == 3142

BandClasses == {"CarTire", "MotorcycleTire", "TruckTire", "RacingTire", "OffroadTire"}

Classes == BandClasses \cup {"BicycleTire"}

VARIABLES
    cls,     \* class of the instance, "NoneType" before construction
    self,    \* the instance's __dict__
    pc,      \* position inside the @logged wrapper: idle, called, returned, raised
    call,    \* the operation called last: its name and explicit arguments
    result,  \* the value returned by the last operation (None if none)
    exc,     \* the exception raised by the last operation (NoException if none)
    log      \* the records emitted through the logging module, oldest first

vars == <<cls, self, pc, call, result, exc, log>>

----------------------------------------------------------------------------
\* Python values

None == [type |-> "NoneType", fmt |-> "", args |-> <<>>, doc |-> <<>>]

Float(n) == [type |-> "float", fmt |-> "{}", args |-> <<n>>, doc |-> <<>>]

Str(f, a) == [type |-> "str", fmt |-> f, args |-> a, doc |-> <<>>]

NoException == [type |-> "None", msg |-> ""]

ValueError(m) == [type |-> "ValueError", msg |-> m]

\* Outcome of running a function body: it returns a value or raises,
\* and leaves the instance with the given __dict__.
Return(v, d) == [raised |-> FALSE, value |-> v, exc |-> NoException, dict |-> d]

Raise(e, d) == [raised |-> TRUE, value |-> None, exc |-> e, dict |-> d]

----------------------------------------------------------------------------
\* Attribute access on __dict__

HasAttr(d, k) == \E i \in 1..Len(d) : d[i].key = k

GetAttr(d, k) == d[CHOOSE i \in 1..Len(d) : d[i].key = k].value

SetAttr(d, k, v) ==
    IF HasAttr(d, k)
    THEN [i \in 1..Len(d) |-> IF d[i].key = k THEN [key |-> k, value |-> v] ELSE d[i]]
    ELSE Append(d, [key |-> k, value |-> v])

----------------------------------------------------------------------------
\* Constructors

CarTire_init(radius, width) ==
    SetAttr(SetAttr(<<>>, "_radius", radius), "_width", width)

BicycleTire_init(radius) ==
    SetAttr(SetAttr(<<>>, "_radius", radius), "pressure", 0)

\* Class(radius, width) for the five radius+width classes, BicycleTire(radius).
init(c, a) ==
    IF c = "BicycleTire" THEN BicycleTire_init(a[1]) ELSE CarTire_init(a[1], a[2])

----------------------------------------------------------------------------
\* Property setters (not wrapped by @logged)

\* Variant of radius_setter that lets zero through (value < 0 for value <= 0).
radius_setter_zero(d, value) ==
    IF value < 0
    THEN Raise(ValueError("Radius must be positive"), d)
    ELSE Return(None, SetAttr(d, "_radius", value))

radius_setter(d, value) ==
    IF value <= 0
    THEN Raise(ValueError("Radius must be positive"), d)
    ELSE Return(None, SetAttr(d, "_radius", value))

width_setter(d, value) ==
    IF value <= 0
    THEN Raise(ValueError("Width must be positive"), d)
    ELSE Return(None, SetAttr(d, "_width", value))

----------------------------------------------------------------------------
\* Methods wrapped by @logged

circumference(d) == Return(Float(2 * pi * GetAttr(d, "_radius")), d)

CarTire_surface_area(d) ==
    Return(Float(2 * pi * GetAttr(d, "_radius") * GetAttr(d, "_width")), d)

\* Variant of BicycleTire_surface_area with radius * 2 for radius ** 2.
BicycleTire_surface_area_times(d) ==
    Return(Float(pi * (GetAttr(d, "_radius") * 2)), d)

BicycleTire_surface_area(d) ==
    Return(Float(pi * (GetAttr(d, "_radius") ^ 2)), d)

\* Variant of inflate that lets zero through (pressure < 0 for pressure <= 0).
inflate_zero(d, pressure) ==
    IF pressure < 0
    THEN Raise(ValueError("Pressure must be positive"), d)
    ELSE Return(Str("Inflated to {} PSI", <<pressure>>), SetAttr(d, "pressure", pressure))

inflate(d, pressure) ==
    IF pressure <= 0
    THEN Raise(ValueError("Pressure must be positive"), d)
    ELSE Return(Str("Inflated to {} PSI", <<pressure>>), SetAttr(d, "pressure", pressure))

\* Variant of deflate that forgets the assignment to pressure.
deflate_noassign(d) == Return(Str("Deflated", <<>>), d)

deflate(d) == Return(Str("Deflated", <<>>), SetAttr(d, "pressure", 0))

\* Variant of burnout that wears the tire down by one unit of radius.
burnout_wear(d) ==
    Return(Str("Burnout performed", <<>>), SetAttr(d, "_radius", GetAttr(d, "_radius") - 1))

burnout(d) == Return(Str("Burnout performed", <<>>), d)

retread(d) == Return(Str("Retread performed", <<>>), d)

heat(d) == Return(Str("Heated", <<>>), d)

mud(d) == Return(Str("Mud applied", <<>>), d)

\* The @logged methods each class defines.
Methods(c) ==
    CASE c = "BicycleTire" -> {"circumference", "surface_area", "inflate", "deflate"}
      [] c = "CarTire" -> {"circumference", "surface_area"}
      [] c = "MotorcycleTire" -> {"circumference", "surface_area", "burnout"}
      [] c = "TruckTire" -> {"circumference", "surface_area", "retread"}
      [] c = "RacingTire" -> {"circumference", "surface_area", "heat"}
      [] c = "OffroadTire" -> {"circumference", "surface_area", "mud"}
      [] OTHER -> {}

\* Argument tuples a caller passes to a method.
ArgsOf(name) == IF name = "inflate" THEN {<<p>> : p \in Values} ELSE {<<>>}

\* method(*args, **kwargs) inside the wrapper.
Invoke(c, name, a, d) ==
    CASE name = "circumference" -> circumference(d)
      [] name = "surface_area" ->
            IF c = "BicycleTire" THEN BicycleTire_surface_area(d) ELSE CarTire_surface_area(d)
      [] name = "inflate" -> inflate(d, a[1])
      [] name = "deflate" -> deflate(d)
      [] name = "burnout" -> burnout(d)
      [] name = "retread" -> retread(d)
      [] name = "heat" -> heat(d)
      [] name = "mud" -> mud(d)

----------------------------------------------------------------------------
\* Serialization

\* json.dumps of a flat dict: one member per item, in the dict's order.
\* Variant of json_dumps that loses the last item of the dict.
json_dumps_short(d) ==
    [i \in 1..(Len(d) - 1) |-> [name |-> d[i].key, number |-> d[i].value]]

json_dumps(d) == [i \in 1..Len(d) |-> [name |-> d[i].key, number |-> d[i].value]]

serialize(d) == [type |-> "str", fmt |-> "json", args |-> <<>>, doc |-> json_dumps(d)]

----------------------------------------------------------------------------
\* Log records written by the wrapper

LogCalling(name, a) ==
    [level |-> "INFO", event |-> "Calling", name |-> name, args |-> a,
     value |-> None, err |-> ""]

LogReturned(name, v) ==
    [level |-> "INFO", event |-> "returned", name |-> name, args |-> <<>>,
     value |-> v, err |-> ""]

LogError(name, e) ==
    [level |-> "ERROR", event |-> "Error in", name |-> name, args |-> <<>>,
     value |-> None, err |-> e.msg]

----------------------------------------------------------------------------
\* State machine

Init ==
    /\ cls = "NoneType"
    /\ self = <<>>
    /\ pc = "idle"
    /\ call = [name |-> "", args |-> <<>>]
    /\ result = None
    /\ exc = NoException
    /\ log = <<>>

\* tire = Class(radius, width) / BicycleTire(radius)
Construct(c, a) ==
    /\ pc = "idle"
    /\ cls = "NoneType"
    /\ cls' = c
    /\ self' = init(c, a)
    /\ call' = [name |-> "__init__", args |-> a]
    /\ result' = None
    /\ exc' = NoException
    /\ UNCHANGED <<pc, log>>

\* tire.radius = value
SetRadius(value) ==
    /\ pc = "idle"
    /\ cls \in Classes
    /\ LET o == radius_setter(self, value) IN
        /\ self' = o.dict
        /\ exc' = o.exc
        /\ result' = o.value
    /\ call' = [name |-> "radius.setter", args |-> <<value>>]
    /\ UNCHANGED <<cls, pc, log>>

\* tire.width = value
SetWidth(value) ==
    /\ pc = "idle"
    /\ cls \in BandClasses
    /\ LET o == width_setter(self, value) IN
        /\ self' = o.dict
        /\ exc' = o.exc
        /\ result' = o.value
    /\ call' = [name |-> "width.setter", args |-> <<value>>]
    /\ UNCHANGED <<cls, pc, log>>

\* tire.pressure = value: pressure is a plain instance attribute
SetPressure(value) ==
    /\ pc = "idle"
    /\ cls = "BicycleTire"
    /\ self' = SetAttr(self, "pressure", value)
    /\ call' = [name |-> "pressure", args |-> <<value>>]
    /\ result' = None
    /\ exc' = NoException
    /\ UNCHANGED <<cls, pc, log>>

\* tire.serialize()
Serialize ==
    /\ pc = "idle"
    /\ cls \in Classes
    /\ result' = serialize(self)
    /\ call' = [name |-> "serialize", args |-> <<>>]
    /\ exc' = NoException
    /\ UNCHANGED <<cls, self, pc, log>>

\* wrapper: logging.info("Calling ..."), before the method runs
WrapperEnter(name, a) ==
    /\ pc = "idle"
    /\ name \in Methods(cls)
    /\ a \in ArgsOf(name)
    /\ Len(log) < 2 * MaxCalls
    /\ log' = Append(log, LogCalling(name, a))
    /\ call' = [name |-> name, args |-> a]
    /\ result' = None
    /\ exc' = NoException
    /\ pc' = "called"
    /\ UNCHANGED <<cls, self>>

\* wrapper: result = method(*args, **kwargs)
WrapperInvoke ==
    /\ pc = "called"
    /\ LET o == Invoke(cls, call.name, call.args, self) IN
        /\ self' = o.dict
        /\ result' = o.value
        /\ exc' = o.exc
        /\ pc' = IF o.raised THEN "raised" ELSE "returned"
    /\ UNCHANGED <<cls, call, log>>

\* wrapper: logging.info("... returned ..."); return result
WrapperReturn ==
    /\ pc = "returned"
    /\ log' = Append(log, LogReturned(call.name, result))
    /\ pc' = "idle"
    /\ UNCHANGED <<cls, self, call, result, exc>>

\* wrapper: except Exception as e: logging.error(...); raise
WrapperExcept ==
    /\ pc = "raised"
    /\ log' = Append(log, LogError(call.name, exc))
    /\ pc' = "idle"
    /\ UNCHANGED <<cls, self, call, result, exc>>

Next ==
    \/ \E c \in BandClasses, r \in Values, w \in Values : Construct(c, <<r, w>>)
    \/ \E r \in Values : Construct("BicycleTire", <<r>>)
    \/ \E v \in Values : SetRadius(v)
    \/ \E v \in Values : SetWidth(v)
    \/ \E v \in Values : SetPressure(v)
    \/ Serialize
    \/ \E name \in Methods(cls) : \E a \in ArgsOf(name) : WrapperEnter(name, a)
    \/ WrapperInvoke
    \/ WrapperReturn
    \/ WrapperExcept

Spec == Init /\ [][Next]_vars

----------------------------------------------------------------------------
\* Properties

Radius == GetAttr(self, "_radius")

Width == GetAttr(self, "_width")

Pressure == GetAttr(self, "pressure")

LoggedNames ==
    {"circumference", "surface_area", "inflate", "deflate", "burnout", "retread", "heat", "mud"}

SetterNames == {"radius.setter", "width.setter"}

\* Every attribute other than k is the same before and after the step.
OthersUnchanged(k) ==
    /\ Len(self') = Len(self)
    /\ \A i \in 1..Len(self) : self[i].key # k => self'[i] = self[i]

\* C1: on a radius+width tire the stored radius and the stored width are
\* strictly greater than zero in every reachable state, right after
\* construction with any arguments included.
C1_RadiusWidthPositive ==
    cls \in BandClasses => Radius > 0 /\ Width > 0

\* C2: constructing a tire with a supplied radius or width <= 0 fails with
\* ValueError and yields no instance.
C2_ConstructorRejects ==
    (call.name = "__init__" /\ \E i \in 1..Len(call.args) : call.args[i] <= 0)
        => (exc.type = "ValueError" /\ cls = "NoneType")

\* C3: a radius or width setter called with a value <= 0 raises ValueError
\* with the setter's message and leaves every stored attribute as it was;
\* called with a value > 0 it raises nothing and stores exactly that value.
C3_SetterValidates ==
    [][/\ call'.name = "radius.setter" =>
            IF call'.args[1] <= 0
            THEN exc' = ValueError("Radius must be positive") /\ self' = self
            ELSE exc' = NoException /\ GetAttr(self', "_radius") = call'.args[1]
       /\ call'.name = "width.setter" =>
            IF call'.args[1] <= 0
            THEN exc' = ValueError("Width must be positive") /\ self' = self
            ELSE exc' = NoException /\ GetAttr(self', "_width") = call'.args[1]
      ]_vars

\* C3 witness: a width setter was rejected on a tire whose radius and width
\* are positive.
C3_Witness ==
    /\ cls \in BandClasses
    /\ call.name = "width.setter"
    /\ call.args[1] <= 0
    /\ exc = ValueError("Width must be positive")
    /\ Radius > 0
    /\ Width > 0

\* C4: inflate(p) with p <= 0 raises ValueError and leaves pressure as it
\* was; inflate(p) with p > 0 stores exactly p as the pressure, which is then
\* positive, and returns a string that includes p.
C4_Inflate ==
    [][(pc = "called" /\ call.name = "inflate") =>
            IF call.args[1] <= 0
            THEN /\ pc' = "raised"
                 /\ exc' = ValueError("Pressure must be positive")
                 /\ self' = self
            ELSE /\ pc' = "returned"
                 /\ exc' = NoException
                 /\ GetAttr(self', "pressure") = call.args[1]
                 /\ GetAttr(self', "pressure") > 0
                 /\ result'.type = "str"
                 /\ result'.args = <<call.args[1]>>
      ]_vars

\* C4 witness: an inflated tire rejected inflate(p) with p <= 0 and the
\* caller has the error.
C4_Witness ==
    /\ cls = "BicycleTire"
    /\ pc = "idle"
    /\ call.name = "inflate"
    /\ call.args[1] <= 0
    /\ exc.type = "ValueError"
    /\ Pressure > 0

\* C5: deflate() never raises, leaves pressure equal to 0 from any prior
\* state and returns the same string every time.
C5_Deflate ==
    [][(pc = "called" /\ call.name = "deflate") =>
            /\ pc' = "returned"
            /\ exc' = NoException
            /\ GetAttr(self', "pressure") = 0
            /\ result' = Str("Deflated", <<>>)
      ]_vars

\* C5 witness: two calls of deflate() have returned, the second on a tire
\* already at pressure 0 as far as the log records.
C5_Witness ==
    /\ cls = "BicycleTire"
    /\ pc = "idle"
    /\ Len(log) = 4
    /\ log[2] = LogReturned("deflate", Str("Deflated", <<>>))
    /\ log[3] = LogCalling("deflate", <<>>)
    /\ log[4] = LogReturned("deflate", Str("Deflated", <<>>))
    /\ call.name = "deflate"
    /\ Pressure = 0

\* C6: the pressure of a BicycleTire is >= 0 in every reachable state.
C6_PressureNonNegative ==
    cls = "BicycleTire" => Pressure >= 0

\* Reference formulas, in thousandths.
BandArea(r, w) == 2 * pi * r * w

DiscArea(r) == pi * r * r

\* C7: the value circumference() returns is 2*pi*radius and the value
\* surface_area() returns is 2*pi*radius*width on a radius+width tire and
\* pi*radius^2 on a BicycleTire, for the radius and width stored now.
C7_Geometry ==
    (pc \in {"returned", "idle"} /\ call.name \in {"circumference", "surface_area"}) =>
        /\ exc = NoException
        /\ call.name = "circumference" => result = Float(2 * pi * Radius)
        /\ (call.name = "surface_area" /\ cls \in BandClasses)
                => result = Float(BandArea(Radius, Width))
        /\ (call.name = "surface_area" /\ cls = "BicycleTire")
                => result = Float(DiscArea(Radius))

\* C7 witness: surface_area() of a BicycleTire has returned twice with
\* different values, so the radius was set in between.
C7_Witness ==
    /\ cls = "BicycleTire"
    /\ pc = "idle"
    /\ call.name = "surface_area"
    /\ Len(log) = 4
    /\ log[2].name = "surface_area"
    /\ log[2].event = "returned"
    /\ log[2].value # result
    /\ Radius > 1

\* The document has a member named k with number v.
Member(doc, k, v) == \E i \in 1..Len(doc) : doc[i].name = k /\ doc[i].number = v

Names(doc) == {doc[i].name : i \in 1..Len(doc)}

\* C8 as stated: the document's keys are radius, width and pressure.
C8_KeysAsStated ==
    call.name = "serialize" =>
        /\ Member(result.doc, "radius", Radius)
        /\ cls \in BandClasses => Member(result.doc, "width", Width)
        /\ cls = "BicycleTire" => Member(result.doc, "pressure", Pressure)

\* C8: serialize() returns a flat document whose keys are the stored
\* attribute names _radius and _width (radius+width tires) or _radius and
\* pressure (BicycleTire), each mapped to the value stored now, and nothing
\* else; serialized right after BicycleTire(r) it has _radius = r and
\* pressure = 0.
C8_Serialize ==
    [][call'.name = "serialize" =>
            /\ result'.type = "str"
            /\ Len(result'.doc) = 2
            /\ Names(result'.doc) =
                    IF cls' = "BicycleTire" THEN {"_radius", "pressure"}
                                            ELSE {"_radius", "_width"}
            /\ \A i \in 1..Len(result'.doc) :
                    result'.doc[i].number = GetAttr(self', result'.doc[i].name)
            /\ (call.name = "__init__" /\ cls = "BicycleTire") =>
                    /\ Member(result'.doc, "_radius", call.args[1])
                    /\ Member(result'.doc, "pressure", 0)
      ]_vars

\* C8 witness: a BicycleTire that has been inflated is serialized and the
\* document shows the positive pressure.
C8_Witness ==
    /\ cls = "BicycleTire"
    /\ call.name = "serialize"
    /\ Len(log) >= 2
    /\ log[2].name = "inflate"
    /\ log[2].event = "returned"
    /\ Pressure > 0
    /\ Member(result.doc, "pressure", Pressure)

\* The last two log records are the call of the last operation and r.
LastRecords(r) ==
    /\ Len(log) >= 2
    /\ log[Len(log) - 1] = LogCalling(call.name, call.args)
    /\ log[Len(log)] = r

\* C9: every call of a @logged method logs an INFO record with its name
\* and arguments before the method runs and an INFO record with the result
\* after it returns; every validation failure, a rejected radius or width
\* setter included, has logged an ERROR record with its message, and no
\* result record, when the error reaches the caller.
C9_Logging ==
    /\ pc \in {"called", "returned", "raised"} =>
            log[Len(log)] = LogCalling(call.name, call.args)
    /\ (pc = "idle" /\ call.name \in LoggedNames /\ exc = NoException)
            => LastRecords(LogReturned(call.name, result))
    /\ (pc = "idle" /\ call.name \in LoggedNames /\ exc.type = "ValueError")
            => LastRecords(LogError(call.name, exc))
    /\ (pc = "idle" /\ call.name \in SetterNames /\ exc.type = "ValueError")
            => (Len(log) >= 1 /\ log[Len(log)] = LogError(call.name, exc))

NonMutatingNames ==
    {"burnout", "retread", "heat", "mud", "circumference", "surface_area", "serialize"}

\* C10: burnout, retread, heat, mud, circumference, surface_area and
\* serialize change no stored attribute; a radius setter changes nothing
\* but the radius, a width setter nothing but the width, inflate and deflate
\* nothing but the pressure.
C10_Frame ==
    [][/\ call'.name \in NonMutatingNames => self' = self
       /\ call'.name = "radius.setter" => OthersUnchanged("_radius")
       /\ call'.name = "width.setter" => OthersUnchanged("_width")
       /\ call'.name \in {"inflate", "deflate"} => OthersUnchanged("pressure")
      ]_vars

\* C10 witness: burnout() has returned after circumference() and the
\* circumference logged earlier is still the one of the stored radius.
C10_Witness ==
    /\ cls = "MotorcycleTire"
    /\ pc = "idle"
    /\ call.name = "burnout"
    /\ result = Str("Burnout performed", <<>>)
    /\ Len(log) = 4
    /\ log[2] = LogReturned("circumference", Float(2 * pi * Radius))

====
